---- MODULE Spec2Model ----
(***************************************************************************)
(* ruff-jupyter-jetbrains: rewriting of Ruff's concise notebook            *)
(* diagnostics ("<path>:cell <c>:<line>:<col>: <code> <message>") into the *)
(* line/column coordinates of JetBrains' flattened notebook text.          *)
(*                                                                         *)
(* Text is a sequence of one-character strings.  The fixed message         *)
(* literals that main prints are single tokens of such a sequence.         *)
(***************************************************************************)
EXTENDS Integers, Sequences, FiniteSets, TLC

\* Bounds of the explored inputs.
MaxCells == 3
MaxChars == 3
MaxLines == 2
MaxArgs == 2

VARIABLES argv, fs, pc, ruff_invoked, reader_invoked, emitted, seps,
          ruff_output, cell_sources, offsets, transformed,
          stdout, stderr, exit_code

vars == <<argv, fs, pc, ruff_invoked, reader_invoked, emitted, seps,
          ruff_output, cell_sources, offsets, transformed,
          stdout, stderr, exit_code>>

SeqsUpTo(S, n) == UNION {[1..k -> S] : k \in 0..n}

CR == "\r"
LF == "\n"

(***************************************************************************)
(* Python primitives used by the script.                                   *)
(***************************************************************************)
DigitChars == <<"0", "1", "2", "3", "4", "5", "6", "7", "8", "9">>

IsDigit(c) == \E d \in 1..Len(DigitChars) : DigitChars[d] = c

DigitVal(c) == (CHOOSE d \in 1..Len(DigitChars) : DigitChars[d] = c) - 1

UpperChars == {"A", "B", "C", "D", "E", "F", "G", "H", "I", "J", "K", "L", "M",
               "N", "O", "P", "Q", "R", "S", "T", "U", "V", "W", "X", "Y", "Z"}

\* int(s) for a string of decimal digits.
RECURSIVE PyInt(_)
PyInt(s) ==
    IF Len(s) = 0 THEN 0
    ELSE 10 * PyInt(SubSeq(s, 1, Len(s) - 1)) + DigitVal(s[Len(s)])

RECURSIVE PyDigits(_)
PyDigits(n) ==
    IF n < 10 THEN <<DigitChars[n + 1]>>
    ELSE PyDigits(n \div 10) \o <<DigitChars[(n % 10) + 1]>>

\* The f-string rendering {n} of an int.
PyStr(n) == IF n < 0 THEN <<"-">> \o PyDigits(0 - n) ELSE PyDigits(n)

\* list[k]: a negative k counts from the end; out of range raises IndexError.
PyIndex(list, k) ==
    IF 0 <= k /\ k < Len(list) THEN [ok |-> TRUE, val |-> list[k + 1]]
    ELSE IF k < 0 /\ 0 - k <= Len(list)
         THEN [ok |-> TRUE, val |-> list[Len(list) + k + 1]]
         ELSE [ok |-> FALSE, val |-> 0]

\* list[:-1]
PyAllButLast(list) ==
    IF Len(list) = 0 THEN <<>> ELSE SubSeq(list, 1, Len(list) - 1)

\* list(accumulate(xs, initial=init))
RECURSIVE Accumulate(_, _)
Accumulate(xs, init) ==
    IF Len(xs) = 0 THEN <<init>>
    ELSE <<init>> \o Accumulate(Tail(xs), init + Head(xs))

RECURSIVE PyJoin(_, _)
PyJoin(sep, items) ==
    IF Len(items) = 0 THEN <<>>
    ELSE IF Len(items) = 1 THEN items[1]
    ELSE items[1] \o sep \o PyJoin(sep, Tail(items))

(***************************************************************************)
(* LINE_BREAK = re.compile(r"\r\n|\r|\n")                                  *)
(***************************************************************************)
\* Length of the LINE_BREAK match starting at position i of s, 0 if none.
\* The alternation is ordered: "\r\n" is tried before "\r".
LINE_BREAK(s, i) ==
    IF s[i] = CR /\ i < Len(s) /\ s[i + 1] = LF THEN 2
    ELSE IF s[i] = CR \/ s[i] = LF THEN 1
    ELSE 0

\* len(re.findall(LINE_BREAK, s)), scanning from position i.
RECURSIVE FindAllLineBreaks(_, _)
FindAllLineBreaks(s, i) ==
    IF i > Len(s) THEN 0
    ELSE IF LINE_BREAK(s, i) = 0 THEN FindAllLineBreaks(s, i + 1)
    ELSE 1 + FindAllLineBreaks(s, i + LINE_BREAK(s, i))

\* re.split(LINE_BREAK, s), scanning from position i with the piece cur open.
RECURSIVE SplitLineBreaks(_, _, _)
SplitLineBreaks(s, i, cur) ==
    IF i > Len(s) THEN <<cur>>
    ELSE IF LINE_BREAK(s, i) = 0 THEN SplitLineBreaks(s, i + 1, Append(cur, s[i]))
    ELSE <<cur>> \o SplitLineBreaks(s, i + LINE_BREAK(s, i), <<>>)

(***************************************************************************)
(* RUFF_CONCISE_LINE_OUTPUT_PATTERN, anchored at both ends:                *)
(*   file_path  one or more characters, as few as possible                 *)
(*   ":cell "   cell: digits  ":"  line: digits  ":"  column: digits  ": " *)
(*   error_code one of A-Z and exactly three digits, then " "              *)
(*   message    any characters, to the end of the line                     *)
(***************************************************************************)
CellLiteral == <<":", "c", "e", "l", "l", " ">>

HasAt(s, i, lit) ==
    /\ i >= 1
    /\ i + Len(lit) - 1 <= Len(s)
    /\ SubSeq(s, i, i + Len(lit) - 1) = lit

\* First position at or after i that holds no digit (Len(s) + 1 if none): where
\* a greedy \d+ starting at i stops.
RECURSIVE DigitsEnd(_, _)
DigitsEnd(s, i) ==
    IF i <= Len(s) /\ IsDigit(s[i]) THEN DigitsEnd(s, i + 1) ELSE i

\* "." matches any character but "\n".
NoLF(s) == \A i \in 1..Len(s) : s[i] # LF

\* "$" matches at the end and before a final "\n".
MessageEnd(s) == IF Len(s) > 0 /\ s[Len(s)] = LF THEN Len(s) - 1 ELSE Len(s)

\* The positions of a match whose file_path group is s[1..p-1].
Groups(s, p) ==
    LET c0 == p + Len(CellLiteral)
        c1 == DigitsEnd(s, c0)
        l0 == c1 + 1
        l1 == DigitsEnd(s, l0)
        k0 == l1 + 1
        k1 == DigitsEnd(s, k0)
        e0 == k1 + 2
        m0 == e0 + 5
    IN [c0 |-> c0, c1 |-> c1, l0 |-> l0, l1 |-> l1, k0 |-> k0, k1 |-> k1,
        e0 |-> e0, m0 |-> m0]

MatchesAt(s, p) ==
    LET g == Groups(s, p) IN
    /\ p >= 2
    /\ NoLF(SubSeq(s, 1, p - 1))
    /\ HasAt(s, p, CellLiteral)
    /\ g.c1 > g.c0
    /\ HasAt(s, g.c1, <<":">>)
    /\ g.l1 > g.l0
    /\ HasAt(s, g.l1, <<":">>)
    /\ g.k1 > g.k0
    /\ HasAt(s, g.k1, <<":", " ">>)
    /\ g.e0 + 4 <= Len(s)
    /\ s[g.e0] \in UpperChars
    /\ \A i \in 1..3 : IsDigit(s[g.e0 + i])
    /\ s[g.e0 + 4] = " "
    /\ NoLF(SubSeq(s, g.m0, MessageEnd(s)))

NoMatch == [matched |-> FALSE]

\* re.match(RUFF_CONCISE_LINE_OUTPUT_PATTERN, s): file_path is non-greedy, so
\* the match with the shortest file_path is the one returned.
RUFF_CONCISE_LINE_OUTPUT_PATTERN(s) ==
    LET ps == {p \in 2..Len(s) : MatchesAt(s, p)} IN
    IF ps = {} THEN NoMatch
    ELSE LET p == CHOOSE q \in ps : \A r \in ps : q <= r
             g == Groups(s, p)
         IN [matched |-> TRUE,
             file_path |-> SubSeq(s, 1, p - 1),
             cell |-> SubSeq(s, g.c0, g.c1 - 1),
             line |-> SubSeq(s, g.l0, g.l1 - 1),
             column |-> SubSeq(s, g.k0, g.k1 - 1),
             error_code |-> SubSeq(s, g.e0, g.e0 + 3),
             message |-> SubSeq(s, g.m0, MessageEnd(s))]

(***************************************************************************)
(* compute_jetbrains_cell_offsets                                          *)
(***************************************************************************)
CountLineBreaksMiscounted(cell_source) ==
    Cardinality({i \in 1..Len(cell_source) : cell_source[i] \in {CR, LF}})

\* len(re.findall(LINE_BREAK, cell_source))
CountLineBreaks(cell_source) == FindAllLineBreaks(cell_source, 1)

\* + 2 accounts for cell marker line and trailing blank line
jetbrains_full_cell_line_counts(cells) ==
    [i \in 1..Len(cells) |-> CountLineBreaks(cells[i]) + 2]

\* initial=1 accounts for the marker line of the first cell
compute_jetbrains_cell_offsets(cells) ==
    Accumulate(PyAllButLast(jetbrains_full_cell_line_counts(cells)), 1)

(***************************************************************************)
(* transform_ruff_to_jetbrains_compatible_output                           *)
(***************************************************************************)
RuffPrefix == <<":", " ", "R", "u", "f", "f", " ", "(">>

JetbrainsLineColumnUnshifted(match, offset) ==
    match.file_path \o <<":">> \o PyStr(offset + PyInt(match.line))
        \o <<":">> \o PyStr(PyInt(match.column))
        \o RuffPrefix \o match.error_code \o <<")", ":", " ">> \o match.message

\* The f-string of the list comprehension, for one match and the offset
\* looked up for its cell.
JetbrainsLine(match, offset) ==
    match.file_path \o <<":">> \o PyStr(offset + PyInt(match.line))
        \o <<":">> \o PyStr(PyInt(match.column) - 1)
        \o RuffPrefix \o match.error_code \o <<")", ":", " ">> \o match.message

\* The pieces of text between the occurrences of the character c (used by the
\* properties below to read the output line by line).
SplitOn(text, c) ==
    LET cuts == {i \in 1..Len(text) : text[i] = c} \cup {0, Len(text) + 1}
        Next(i) == CHOOSE j \in cuts : j > i /\ \A k \in cuts : k > i => j <= k
        starts == {i \in cuts : i <= Len(text)}
        Nth[n \in 1..Cardinality(starts)] ==
            IF n = 1 THEN 0 ELSE Next(Nth[n - 1])
    IN [n \in 1..Cardinality(starts) |-> SubSeq(text, Nth[n] + 1, Next(Nth[n]) - 1)]

RuffLinesSplitOnLFOnly(ruff_text) == SplitOn(ruff_text, LF)

\* ruff_lines = re.split(LINE_BREAK, ruff_output)
RuffLines(ruff_text) == SplitLineBreaks(ruff_text, 1, <<>>)

OffsetLookupClamped(cell_offsets, match) ==
    LET k == PyInt(match.cell) - 1 IN
    IF k >= Len(cell_offsets)
    THEN [ok |-> TRUE, val |-> cell_offsets[Len(cell_offsets)]]
    ELSE PyIndex(cell_offsets, k)

\* jetbrains_cell_line_offsets[int(match['cell']) - 1]
OffsetLookup(cell_offsets, match) == PyIndex(cell_offsets, PyInt(match.cell) - 1)

\* The outcome of the call: the returned text, or raised = TRUE when a lookup
\* raises IndexError while the list is built, in which case nothing is returned.
transform_ruff_to_jetbrains_compatible_output(ruff_text, cells) ==
    LET ruff_lines == RuffLines(ruff_text)
        jetbrains_cell_line_offsets == compute_jetbrains_cell_offsets(cells)
        all == [i \in 1..Len(ruff_lines) |->
                    RUFF_CONCISE_LINE_OUTPUT_PATTERN(ruff_lines[i])]
        matches == SelectSeq(all, LAMBDA m : m.matched)
        lookups == [i \in 1..Len(matches) |->
                        OffsetLookup(jetbrains_cell_line_offsets, matches[i])]
    IN IF \E i \in 1..Len(matches) : ~lookups[i].ok
       THEN [raised |-> TRUE, value |-> <<>>]
       ELSE [raised |-> FALSE,
             value |-> PyJoin(<<LF>>,
                 [i \in 1..Len(matches) |->
                      JetbrainsLine(matches[i], lookups[i].val)])]

(***************************************************************************)
(* The linter's side: lines of Ruff's concise output.  A diagnostic is     *)
(* written as  {file_path}:cell {cell}:{line}:{column}: {code} {message}.  *)
(***************************************************************************)
RuffConciseLine(d) ==
    d.file_path \o CellLiteral \o PyStr(d.cell) \o <<":">> \o PyStr(d.line)
        \o <<":">> \o PyStr(d.column) \o <<":", " ">> \o d.error_code
        \o <<" ">> \o d.message

Diag(fp, c, l, k, code, msg) ==
    [file_path |-> fp, cell |-> c, line |-> l, column |-> k,
     error_code |-> code, message |-> msg]

E501 == <<"E", "5", "0", "1">>
F401 == <<"F", "4", "0", "1">>
W291 == <<"W", "2", "9", "1">>

\* Diagnostics the linter may report.
Diagnostics ==
    << Diag(<<"n">>, 1, 1, 1, E501, <<"m">>),
       Diag(<<"n">>, 2, 3, 5, E501, <<"m", " ", "x">>),
       Diag(<<"n">>, 0, 1, 1, F401, <<"m">>),
       Diag(<<"n">>, 3, 12, 10, W291, <<>>),
       Diag(<<"n">>, 1, 2, 0, E501, <<"m">>),
       Diag(<<"n">> \o CellLiteral \o <<"1">>, 2, 1, 1, F401, <<"m">>) >>

\* Other lines of the linter's output, none of which is a diagnostic of the
\* concise notebook format: a blank line, a summary line, a code of four
\* digits, a code of two letters, a lower-case code, no file path, no cell.
OtherLines ==
    << <<>>,
       <<"F", "o", "u", "n", "d", " ", "1">>,
       <<"n">> \o CellLiteral \o <<"1", ":", "1", ":", "1", ":", " ", "E", "5", "0", "1", "1", " ", "m">>,
       <<"n">> \o CellLiteral \o <<"1", ":", "1", ":", "1", ":", " ", "P", "L", "0", "1", " ", "m">>,
       <<"n">> \o CellLiteral \o <<"1", ":", "1", ":", "1", ":", " ", "e", "5", "0", "1", " ", "m">>,
       CellLiteral \o <<"1", ":", "1", ":", "1", ":", " ", "E", "5", "0", "1", " ", "m">>,
       <<"n", ":", "1", ":", "1", ":", " ", "E", "5", "0", "1", " ", "m">> >>

\* A sample is named by its index: first the diagnostics, then the other lines.
SampleIds == 1..(Len(Diagnostics) + Len(OtherLines))
IsDiag(id) == id <= Len(Diagnostics)
SampleText(id) ==
    IF IsDiag(id) THEN RuffConciseLine(Diagnostics[id])
    ELSE OtherLines[id - Len(Diagnostics)]

LineSeparators == {<<LF>>, <<CR>>, <<CR, LF>>}

\* The text of the lines ids, seps[i] standing between line i and line i + 1.
RECURSIVE RuffText(_, _)
RuffText(ids, separators) ==
    IF Len(ids) = 0 THEN <<>>
    ELSE IF Len(ids) = 1 THEN SampleText(ids[1])
    ELSE SampleText(ids[1]) \o separators[1]
             \o RuffText(Tail(ids), Tail(separators))

CompletedProcess(out, err, rc) == [stdout |-> out, stderr |-> err, returncode |-> rc]

NoProcess == CompletedProcess(<<>>, <<>>, 0)
NotCalled == [raised |-> FALSE, value |-> <<>>]

(***************************************************************************)
(* compute_jetbrains_cell_offsets applied to every notebook of at most     *)
(* MaxCells cells holding at most MaxChars characters in all.              *)
(***************************************************************************)
CellChars == {"a", CR, LF}

\* The notebooks (sequences of cell sources) of at most k cells and n characters.
RECURSIVE Notebooks(_, _)
Notebooks(k, n) ==
    IF k = 0 THEN {<<>>}
    ELSE {<<>>} \cup
         UNION {{<<c>> \o rest : rest \in Notebooks(k - 1, n - Len(c))} :
                    c \in SeqsUpTo(CellChars, n)}

Idle ==
    /\ argv = <<>>
    /\ fs = {}
    /\ ruff_invoked = FALSE
    /\ reader_invoked = FALSE
    /\ stdout = <<>>
    /\ stderr = <<>>
    /\ exit_code = -1

InitOffsets ==
    /\ Idle
    /\ pc = "call"
    /\ emitted = <<>>
    /\ seps = <<>>
    /\ ruff_output = NoProcess
    /\ cell_sources \in Notebooks(MaxCells, MaxChars)
    /\ offsets = <<>>
    /\ transformed = NotCalled

CallComputeOffsets ==
    /\ pc = "call"
    /\ offsets' = compute_jetbrains_cell_offsets(cell_sources)
    /\ pc' = "returned"
    /\ UNCHANGED <<argv, fs, ruff_invoked, reader_invoked, emitted, seps,
                   ruff_output, cell_sources, transformed, stdout, stderr,
                   exit_code>>

NextOffsets == CallComputeOffsets

SpecOffsets == InitOffsets /\ [][NextOffsets]_vars

(***************************************************************************)
(* transform_ruff_to_jetbrains_compatible_output applied to every linter   *)
(* output of at most MaxLines lines and a notebook of none to three cells. *)
(***************************************************************************)
SomeNotebooks ==
    { <<>>,
      << <<"a", LF, "b">> >>,
      << <<"a", LF, "b">>, <<>> >>,
      << <<>>, <<"a", CR, LF, "b", CR>>, <<"a">> >> }

InitTransform ==
    /\ Idle
    /\ pc = "call"
    /\ emitted \in SeqsUpTo(SampleIds, MaxLines)
    /\ seps \in [1..(Len(emitted) - 1) -> LineSeparators]
    /\ ruff_output = CompletedProcess(RuffText(emitted, seps), <<>>, 0)
    /\ cell_sources \in SomeNotebooks
    /\ offsets = <<>>
    /\ transformed = NotCalled

CallTransform ==
    /\ pc = "call"
    /\ transformed' =
           transform_ruff_to_jetbrains_compatible_output(ruff_output.stdout,
                                                         cell_sources)
    /\ offsets' = compute_jetbrains_cell_offsets(cell_sources)
    /\ pc' = IF transformed'.raised THEN "raised" ELSE "returned"
    /\ UNCHANGED <<argv, fs, ruff_invoked, reader_invoked, emitted, seps,
                   ruff_output, cell_sources, stdout, stderr, exit_code>>

NextTransform == CallTransform

SpecTransform == InitTransform /\ [][NextTransform]_vars

(***************************************************************************)
(* main: one run of the script.  argv is sys.argv (argv[1] is the program  *)
(* name, argv[2] is sys.argv[1]), fs the set of paths that are regular     *)
(* files.  Paths are single names, for which str(Path(p)) is p.            *)
(***************************************************************************)
Program == <<"ruff-jupyter-jetbrains">>
NotebookPath == <<"a", ".", "i", "p", "y", "n", "b">>
MisspeltPath == <<"a", ".", "i", "p", "n", "b">>
DotfilePath == <<".", "i", "p", "y", "n", "b">>
Paths == {NotebookPath, MisspeltPath, DotfilePath}

\* Path(p).suffix: the name from its last "." on, unless that "." is the
\* first or the last character of the name, or there is none.
PathSuffix(p) ==
    LET dots == {i \in 1..Len(p) : p[i] = "."} IN
    IF dots = {} THEN <<>>
    ELSE LET i == CHOOSE d \in dots : \A e \in dots : e <= d IN
         IF 1 < i /\ i < Len(p) THEN SubSeq(p, i, Len(p)) ELSE <<>>

IpynbSuffix == <<".", "i", "p", "y", "n", "b">>

\* print(*tokens, file=...): the text and the newline print adds.
Printed(text) == text \o <<LF>>

Red == "ESC[91m"
Reset == "ESC[0m"

NoFileMessage ==
    <<Red, "No file specified. Make sure you provide the JetBrains $FilePath$ argument in the file watcher run configurations", Reset>>

SeveralFilesMessage ==
    <<Red, "Several files specified. Make sure you only provide the JetBrains $FilePath$ argument in the file watcher run configurations", Reset>>

NotIpynbMessage ==
    <<Red, "ruff-jupyter-jetbrains is designed to be run on ", "ESC[4m", ".ipynb", "ESC[24m",
      " files. Make sure the JetBrains file watcher is configured for Jupyter files exclusively.", Reset>>

NotAFileMessage(path) ==
    <<Red, "File ">> \o path
        \o <<" does not exist. This is unexpected if you use ruff-jupyter-jetbrains as a file watcher.", Reset>>

\* What the interpreter writes to stderr for an exception nobody catches.
Traceback(exception) == <<"Traceback (most recent call last):", LF, exception, LF>>

\* notebook_path = Path(sys.argv[1])
notebook_path == argv[2]

\* What the linter may answer in a run of main: its lines and separators, its
\* stderr, its return code (negative when a signal killed it).
MainLinterLines ==
    { <<<<>>, <<>>>>,
      <<<<1, Len(Diagnostics) + 1>>, << <<LF>> >>>>,
      <<<<2>>, <<>>>>,
      <<<<3>>, <<>>>>,
      <<<<Len(Diagnostics) + 2, 1>>, << <<CR, LF>> >>>> }

LinterStderrs == {<<>>, <<"w", "a", "r", "n", LF>>}
LinterReturnCodes == {0, 1, 2, -9}

Init ==
    /\ argv \in {<<Program>> \o args : args \in SeqsUpTo(Paths, MaxArgs)}
    /\ fs \in SUBSET Paths
    /\ pc = "check_no_file"
    /\ ruff_invoked = FALSE
    /\ reader_invoked = FALSE
    /\ emitted = <<>>
    /\ seps = <<>>
    /\ ruff_output = NoProcess
    /\ cell_sources = <<>>
    /\ offsets = <<>>
    /\ transformed = NotCalled
    /\ stdout = <<>>
    /\ stderr = <<>>
    /\ exit_code = -1

inputs == <<argv, fs>>
calls == <<ruff_invoked, reader_invoked, emitted, seps, ruff_output, cell_sources>>
results == <<offsets, transformed>>

\* print(message, file=sys.stderr); sys.exit(2)
UsageError(message) ==
    /\ stderr' = stderr \o Printed(message)
    /\ exit_code' = 2
    /\ pc' = "done"
    /\ UNCHANGED <<inputs, calls, results, stdout>>

Proceed(next) ==
    /\ pc' = next
    /\ UNCHANGED <<inputs, calls, results, stdout, stderr, exit_code>>

\* An exception nobody catches ends the interpreter with status 1.
Uncaught(exception) ==
    /\ stderr' = stderr \o Traceback(exception)
    /\ exit_code' = 1
    /\ pc' = "crashed"

\* if len(sys.argv) == 1
CheckNoFile ==
    /\ pc = "check_no_file"
    /\ \/ Len(argv) = 1 /\ UsageError(NoFileMessage)
       \/ Len(argv) # 1 /\ Proceed("check_several")

CheckSeveralSkipped ==
    /\ pc = "check_several"
    /\ Proceed("check_suffix")

\* if len(sys.argv) >= 3
CheckSeveral ==
    /\ pc = "check_several"
    /\ \/ Len(argv) >= 3 /\ UsageError(SeveralFilesMessage)
       \/ Len(argv) < 3 /\ Proceed("check_suffix")

\* if notebook_path.suffix != ".ipynb"
CheckSuffix ==
    /\ pc = "check_suffix"
    /\ \/ PathSuffix(notebook_path) # IpynbSuffix /\ UsageError(NotIpynbMessage)
       \/ PathSuffix(notebook_path) = IpynbSuffix /\ Proceed("check_is_file")

CheckIsFileSkipped ==
    /\ pc = "check_is_file"
    /\ Proceed("run_ruff")

\* if not notebook_path.is_file()
CheckIsFile ==
    /\ pc = "check_is_file"
    /\ \/ notebook_path \notin fs /\ UsageError(NotAFileMessage(notebook_path))
       \/ notebook_path \in fs /\ Proceed("run_ruff")

\* ruff_output = subprocess.run(["ruff", "check", ...], capture_output=True,
\* text=True): returns once the linter has ended, or raises when it cannot be
\* started.
RunRuff ==
    /\ pc = "run_ruff"
    /\ ruff_invoked' = TRUE
    /\ \/ \E ls \in MainLinterLines, err \in LinterStderrs, rc \in LinterReturnCodes :
              /\ emitted' = ls[1]
              /\ seps' = ls[2]
              /\ ruff_output' = CompletedProcess(RuffText(ls[1], ls[2]), err, rc)
              /\ pc' = "read_cells"
              /\ UNCHANGED <<stderr, exit_code>>
       \/ /\ Uncaught("FileNotFoundError")
          /\ UNCHANGED <<emitted, seps, ruff_output>>
    /\ UNCHANGED <<inputs, reader_invoked, cell_sources, results, stdout>>

\* cell_sources = read_cells(notebook_path): the cells' sources, or the
\* parser's exception for a file that is no notebook.
ReadCells ==
    /\ pc = "read_cells"
    /\ reader_invoked' = TRUE
    /\ \/ \E cells \in SomeNotebooks :
              /\ cell_sources' = cells
              /\ pc' = "transform"
              /\ UNCHANGED <<stderr, exit_code>>
       \/ /\ Uncaught("NotJSONError")
          /\ UNCHANGED cell_sources
    /\ UNCHANGED <<inputs, ruff_invoked, emitted, seps, ruff_output, results, stdout>>

\* jetbrains_compatible_output = transform_ruff_to_jetbrains_compatible_output(
\*     ruff_output.stdout, cell_sources)
Transform ==
    /\ pc = "transform"
    /\ transformed' =
           transform_ruff_to_jetbrains_compatible_output(ruff_output.stdout,
                                                         cell_sources)
    /\ offsets' = compute_jetbrains_cell_offsets(cell_sources)
    /\ \/ /\ transformed'.raised
          /\ Uncaught("IndexError")
       \/ /\ ~transformed'.raised
          /\ pc' = "print_output"
          /\ UNCHANGED <<stderr, exit_code>>
    /\ UNCHANGED <<inputs, calls, stdout>>

\* print(jetbrains_compatible_output, end="")
PrintOutput ==
    /\ pc = "print_output"
    /\ stdout' = stdout \o transformed.value
    /\ pc' = "print_stderr"
    /\ UNCHANGED <<inputs, calls, results, stderr, exit_code>>

\* print(ruff_output.stderr, end=""): print writes to sys.stdout when it is
\* given no file.
PrintStderr ==
    /\ pc = "print_stderr"
    /\ stdout' = stdout \o ruff_output.stderr
    /\ pc' = "exit"
    /\ UNCHANGED <<inputs, calls, results, stderr, exit_code>>

ExitZero ==
    /\ pc = "exit"
    /\ exit_code' = 0
    /\ pc' = "done"
    /\ UNCHANGED <<inputs, calls, results, stdout, stderr>>

\* sys.exit(ruff_output.returncode): the status keeps its low eight bits.
Exit ==
    /\ pc = "exit"
    /\ exit_code' = ruff_output.returncode % 256
    /\ pc' = "done"
    /\ UNCHANGED <<inputs, calls, results, stdout, stderr>>

Next ==
    \/ CheckNoFile
    \/ CheckSeveral
    \/ CheckSuffix
    \/ CheckIsFile
    \/ RunRuff
    \/ ReadCells
    \/ Transform
    \/ PrintOutput
    \/ PrintStderr
    \/ Exit

Spec == Init /\ [][Next]_vars

(***************************************************************************)
(* Properties of compute_jetbrains_cell_offsets (SpecOffsets).             *)
(***************************************************************************)
\* The line breaks of a cell source: every "\r" and every "\n", a "\r\n" pair
\* counting once.
BreakCount(cell) ==
    Cardinality({i \in 1..Len(cell) : cell[i] \in {CR, LF}})
      - Cardinality({i \in 1..(Len(cell) - 1) : cell[i] = CR /\ cell[i + 1] = LF})

WithLastCell(cells, c) == [cells EXCEPT ![Len(cells)] = c]

\* C2: for a notebook of at least one cell the offsets are as many as the
\* cells, start at 1, each further one adds to the one before it the line
\* breaks of the cell before it plus 2 (so they strictly increase and an empty
\* cell adds exactly 2), and the last cell's content changes no offset.
C2_OffsetsArePrefixSums ==
    (pc = "returned" /\ Len(cell_sources) >= 1) =>
        /\ Len(offsets) = Len(cell_sources)
        /\ offsets[1] = 1
        /\ \A i \in 2..Len(offsets) :
               /\ offsets[i] = offsets[i - 1] + BreakCount(cell_sources[i - 1]) + 2
               /\ offsets[i] > offsets[i - 1]
               /\ cell_sources[i - 1] = <<>> => offsets[i] = offsets[i - 1] + 2
        /\ \A c \in SeqsUpTo(CellChars, MaxChars) :
               compute_jetbrains_cell_offsets(WithLastCell(cell_sources, c)) = offsets

C2_Witness ==
    /\ pc = "returned"
    /\ cell_sources = << <<CR, LF>>, <<>>, <<"a">> >>
    /\ offsets = <<1, 4, 6>>

\* C3: the offsets are as many as the cells for every notebook, the one
\* without cells included, whose offsets are the empty sequence.
C3_OffsetsAsManyAsCells ==
    pc = "returned" => Len(offsets) = Len(cell_sources)

(***************************************************************************)
(* Properties of transform_ruff_to_jetbrains_compatible_output             *)
(* (SpecTransform).  The linter's diagnostics are known from emitted, not  *)
(* from the pattern.                                                       *)
(***************************************************************************)
EmittedDiagnostics ==
    LET ids == SelectSeq(emitted, IsDiag) IN
    [j \in 1..Len(ids) |-> Diagnostics[ids[j]]]

OutputLines(text) == IF text = <<>> THEN <<>> ELSE SplitOn(text, LF)

StartsWith(text, prefix) ==
    Len(prefix) <= Len(text) /\ SubSeq(text, 1, Len(prefix)) = prefix

EndsWith(text, suffix) ==
    /\ Len(suffix) <= Len(text)
    /\ SubSeq(text, Len(text) - Len(suffix) + 1, Len(text)) = suffix

ExpectedLine(d, absolute_line, absolute_column) ==
    d.file_path \o <<":">> \o PyStr(absolute_line) \o <<":">>
        \o PyStr(absolute_column) \o RuffPrefix \o d.error_code
        \o <<")", ":", " ">> \o d.message

\* "n:7:4: Ruff (E501): m x"
Line7Column4 ==
    <<"n", ":", "7", ":", "4", ":", " ", "R", "u", "f", "f", " ", "(",
      "E", "5", "0", "1", ")", ":", " ", "m", " ", "x">>

C4_MatchingLinesKeptInOrder ==
    pc = "returned" =>
        LET ds == EmittedDiagnostics
            v == transformed.value
            out == OutputLines(v)
        IN /\ Len(out) = Len(ds)
           /\ \A j \in 1..Len(ds) :
                  /\ j <= Len(out)
                  /\ StartsWith(out[j], ds[j].file_path \o <<":">>)
                  /\ EndsWith(out[j], RuffPrefix \o ds[j].error_code
                                          \o <<")", ":", " ">> \o ds[j].message)
                  /\ \A i \in 1..Len(out[j]) : out[j][i] # CR
           /\ Len(ds) > 0 =>
                  Cardinality({i \in 1..Len(v) : v[i] = LF}) = Len(ds) - 1
           /\ Len(v) > 0 => v[Len(v)] # LF
           /\ ruff_output.stdout = <<>> => v = <<>>

\* A line with a four-digit code, "\r", then a diagnostic: one output line.
C4_Witness ==
    /\ pc = "returned"
    /\ emitted = <<Len(Diagnostics) + 3, 1>>
    /\ seps = << <<CR>> >>
    /\ Len(cell_sources) = 1
    /\ Len(OutputLines(transformed.value)) = 1

\* C8: a diagnostic whose cell number is greater than the number of offsets
\* makes the call fail with the lookup error and return no text.
C8_CellBeyondOffsetsRaises ==
    (pc # "call" /\ \E j \in 1..Len(EmittedDiagnostics) :
                        EmittedDiagnostics[j].cell > Len(offsets)) =>
        /\ pc = "raised"
        /\ transformed.raised
        /\ transformed.value = <<>>

\* A diagnostic for cell 1 followed by one for cell 2 of a one-cell notebook.
C8_Witness ==
    /\ pc = "raised"
    /\ emitted = <<1, 2>>
    /\ Len(cell_sources) = 1
    /\ transformed.value = <<>>

\* C9: the call never returns a rendered line for a diagnostic whose cell
\* number, 0 included, names no cell of the notebook.
C9_NoLineForForeignCell ==
    pc = "returned" =>
        \A j \in 1..Len(EmittedDiagnostics) :
            EmittedDiagnostics[j].cell \in 1..Len(cell_sources)

(***************************************************************************)
(* Properties of main (Spec).                                              *)
(***************************************************************************)
\* The sample paths whose extension is ".ipynb".
IpynbPaths == {NotebookPath}

NoPathGiven == Len(argv) = 1
SeveralGiven == Len(argv) >= 3
WrongSuffix == Len(argv) = 2 /\ argv[2] \notin IpynbPaths
NoSuchFile == Len(argv) = 2 /\ argv[2] \in IpynbPaths /\ argv[2] \notin fs

IsUsageError == NoPathGiven \/ SeveralGiven \/ WrongSuffix \/ NoSuchFile

Ended == pc \in {"done", "crashed"}

LineCount(text) == Cardinality({i \in 1..Len(text) : text[i] = LF})

\* C5: in a run with a usage error the linter and the notebook reader are
\* never invoked and nothing is written to stdout; the run does not go past
\* the checks, and it ends with exit code 2 and exactly one line on stderr.
C5_UsageErrorStopsTheRun ==
    IsUsageError =>
        /\ ~ruff_invoked
        /\ ~reader_invoked
        /\ stdout = <<>>
        /\ pc \in {"check_no_file", "check_several", "check_suffix",
                   "check_is_file", "done"}
        /\ pc = "done" =>
               /\ exit_code = 2
               /\ LineCount(stderr) = 1
               /\ Len(stderr) > 1
               /\ stderr[Len(stderr)] = LF
        /\ pc # "done" => stderr = <<>> /\ exit_code = -1

\* An existing file whose extension is misspelt.
C5_Witness ==
    /\ pc = "done"
    /\ argv = <<Program, MisspeltPath>>
    /\ MisspeltPath \in fs
    /\ exit_code = 2
    /\ stderr = Printed(NotIpynbMessage)

\* C6 as stated: every run that passes the input checks, whose linter has
\* returned an exit code and whose notebook has been read, ends with the
\* linter's exit code, whatever the linter wrote and the notebook holds.
C6_ExitCodeAlwaysMirrorsLinter ==
    (Ended /\ ~IsUsageError /\ reader_invoked
           /\ stderr # Traceback("NotJSONError")
           /\ ruff_output.returncode >= 0) =>
        exit_code = ruff_output.returncode

\* C6, amended: a run that reaches sys.exit ends with the linter's exit code;
\* a run in which the linter cannot be started, the notebook cannot be read
\* or the rewrite raises the lookup error ends with status 1 and has written
\* nothing to stdout; nothing is written before the linter has returned.
C6_ExitCodeMirrorsLinterUnlessRaised ==
    /\ (pc = "done" /\ ruff_invoked /\ ruff_output.returncode >= 0) =>
           exit_code = ruff_output.returncode
    /\ pc = "crashed" => exit_code = 1 /\ stdout = <<>> /\ ruff_invoked
    /\ (~IsUsageError /\ pc \in {"check_no_file", "check_several", "check_suffix",
                                "check_is_file", "run_ruff"}) =>
           stdout = <<>> /\ stderr = <<>> /\ exit_code = -1
    /\ (~IsUsageError /\ ~Ended) => exit_code = -1

C6_Witness ==
    /\ pc = "done"
    /\ ruff_invoked
    /\ emitted = <<2>>
    /\ Len(cell_sources) = 2
    /\ ruff_output.returncode = 1
    /\ exit_code = 1
    /\ stdout = Line7Column4

\* C7: stdout holds nothing but the rewritten diagnostics, whatever the
\* linter's stderr is.
C7_StdoutOnlyDiagnostics ==
    stdout = <<>> \/ stdout = transformed.value

\* C10: the first failing check alone decides the message: the argument count
\* (none, then several) before the suffix, the suffix before the file's
\* existence.
C10_FirstFailingCheckDecides ==
    pc = "done" =>
        /\ NoPathGiven => stderr = Printed(NoFileMessage)
        /\ SeveralGiven => stderr = Printed(SeveralFilesMessage)
        /\ WrongSuffix => stderr = Printed(NotIpynbMessage)
        /\ NoSuchFile => stderr = Printed(NotAFileMessage(argv[2]))

\* Two paths with a misspelt extension, neither existing.
C10_Witness ==
    /\ pc = "done"
    /\ argv = <<Program, MisspeltPath, MisspeltPath>>
    /\ fs = {}
    /\ stderr = Printed(SeveralFilesMessage)
    /\ exit_code = 2

====
